---- MODULE Spec2Model ----
(***************************************************************************)
(* Model of the adjacency-list graph ADT GraphTAD (src/core/graph_tad.py). *)
(*                                                                         *)
(* A node value is a Python str, modelled as a tuple of one-character      *)
(* strings, or the Python value None.  adj_list is the dict of the class:  *)
(* a function from the keys to their neighbor lists.  The order of the     *)
(* keys of the dict is read only to build error contexts and by __str__,   *)
(* so it is not part of the state.                                         *)
(*                                                                         *)
(* Each method is an operator from the dict before the call (and the       *)
(* arguments) to an Outcome: the dict after the call, the exception that   *)
(* left the method (NoException when it returned) and the value returned.  *)
(* One action per method applies it to inputs drawn from NodeInputs; the   *)
(* caller then takes the outcome (Return) before it makes the next call.   *)
(*                                                                         *)
(* The second half models the adjacency-matrix functions                   *)
(* (src/core/matrix_graph.py) and the load workflow of MatrixMenu          *)
(* (src/menus/matrix_menu.py).  A matrix is a tuple of rows, a row a tuple  *)
(* of integers; a file is the tuple of its lines, a line a tuple of         *)
(* characters.  The graph session, the matrix functions and the matrix      *)
(* menu are separate specifications over the same variables; each leaves    *)
(* the variables of the others at their initial values.                    *)
(***************************************************************************)
EXTENDS Integers, Sequences, FiniteSets, TLC

VARIABLES
    adj_list,   \* GraphTAD.adj_list
    before,     \* adj_list when the call in `last` started
    last,       \* the call whose outcome the caller holds: method,
                \* arguments, exception, value returned; NoCall between calls
    ncalls,     \* number of calls made in this session
    held,       \* which object the value returned by the call in `last` is
    mcall,          \* the last call of a matrix function (or step of the load
                    \* workflow): function, arguments, exception, value
                    \* returned, message shown; NoMatrixCall between calls
    current_matrix, \* MatrixMenu.current_matrix
    matrix_before,  \* current_matrix when the step in `mcall` started
    mpc,            \* where MatrixMenu is: "menu", or in _load_matrix at the
                    \* path prompt ("path") or the retry prompt ("again")
    load_retries,        \* the local `retries` of _load_matrix
    failed          \* entries that did not load since _load_matrix started

gvars == <<adj_list, before, last, ncalls, held>>

mvars == <<mcall, current_matrix, matrix_before, mpc, load_retries, failed>>

vars == <<adj_list, before, last, ncalls, held,
          mcall, current_matrix, matrix_before, mpc, load_retries, failed>>

\* Longest session (number of method calls) explored.
MaxCalls == 4

\* GraphTAD.MAX_RETRIES
MAX_RETRIES == 3

\* Largest number of rows, and of cells of a row, of the matrices the matrix
\* functions are applied to.
MaxDim == 2

\* Most entries that fail to load in one run of _load_matrix.
MaxFailed == 4

----------------------------------------------------------------------------
(* Values *)

\* Python's None: no str value is a tuple holding a several-character string.
None == <<"NoneType">>

\* The well-formed identities used as inputs.
ValidIds == {<<"a">>, <<"b">>, <<"c">>, <<"d">>}

\* The identities no operation accepts: None, "" and " ".
InvalidIds == {None, <<>>, <<" ">>}

NodeInputs == ValidIds \cup InvalidIds

\* The endpoints add_edge is called with: "" and " " take the same path
\* through it, so one of them stands for both.
EdgeInputs == ValidIds \cup {None, <<" ">>}

Range(s) == {s[i] : i \in 1..Len(s)}

\* str(node)
Str(node) == IF node = None THEN <<"N", "o", "n", "e">> ELSE node

IsSpace(c) == c \in {" ", "\t", "\n", "\r"}

RECURSIVE LStrip(_)
LStrip(s) == IF s # <<>> /\ IsSpace(Head(s)) THEN LStrip(Tail(s)) ELSE s

RECURSIVE RStrip(_)
RStrip(s) ==
    IF s # <<>> /\ IsSpace(s[Len(s)]) THEN RStrip(SubSeq(s, 1, Len(s) - 1)) ELSE s

\* str.strip()
Strip(s) == RStrip(LStrip(s))

----------------------------------------------------------------------------
(* Exceptions (src/exceptions/graph_exceptions.py) *)

NoException == [cls |-> "none", message |-> "", last_error |-> ""]

\* NodeError(message, node_id, context): last_error is context["last_error"],
\* the only part of a context that names another failure.  The code stores
\* str(last_error), a text that starts with the message of that failure; the
\* model keeps the message.
NodeError(message, last_error) ==
    [cls |-> "NodeError", message |-> message, last_error |-> last_error]

\* Mutant of EdgeError: the failure is raised as a NodeError.
EdgeErrorAsNodeError(message) ==
    [cls |-> "NodeError", message |-> message, last_error |-> ""]

\* EdgeError(message, from_node, to_node, bidirectional)
EdgeError(message) ==
    [cls |-> "EdgeError", message |-> message, last_error |-> ""]

MsgNone == "Node cannot be None"
MsgEmpty == "Node ID cannot be empty"
MsgNotFound == "Node does not exist"
MsgExists == "Node already exists"
MsgRetries == "Failed to add node after MAX_RETRIES attempts"
MsgSelfLoop == "Self loops are not allowed"

Outcome(al, exc, ret) == [adj |-> al, exc |-> exc, ret |-> ret]

----------------------------------------------------------------------------
(* GraphTAD *)

\* GraphTAD._validate_node: the exception it raises, NoException if none.
\* Its `except Exception` branch needs str(node) or the dict lookup to raise,
\* which they do not for a str or None.
validate_node(al, node, check_exists) ==
    IF node = None THEN NodeError(MsgNone, "")
    ELSE IF Strip(Str(node)) = <<>> THEN NodeError(MsgEmpty, "")
    ELSE IF check_exists /\ node \notin DOMAIN al THEN NodeError(MsgNotFound, "")
    ELSE NoException

\* GraphTAD.is_empty
is_empty(al) == Outcome(al, NoException, Cardinality(DOMAIN al) = 0)

\* Mutant of SetEmpty: every node is given the new, empty list.
SetEmptyEverywhere(al, node) == [n \in DOMAIN al \cup {node} |-> <<>>]

\* self.adj_list[node] = []
SetEmpty(al, node) ==
    [n \in DOMAIN al \cup {node} |-> IF n = node THEN <<>> ELSE al[n]]

\* Mutant of RetryFailure: the failure given up on is not passed on.
RetryFailureWithoutContext(last_error) == NodeError(MsgRetries, "")

\* raise NodeError(f"Failed to add node after {MAX_RETRIES} attempts", ...,
\*                 context={"last_error": str(last_error)})
RetryFailure(last_error) == NodeError(MsgRetries, last_error.message)

\* The while loop of GraphTAD.add_node, entered with `retries` failed
\* attempts whose last failure is last_error.
RECURSIVE add_node_loop(_, _, _, _)
add_node_loop(al, node, retries, last_error) ==
    IF retries < MAX_RETRIES
    THEN LET v == validate_node(al, node, FALSE) IN
         IF v # NoException THEN add_node_loop(al, node, retries + 1, v)
         ELSE IF node \in DOMAIN al
              THEN add_node_loop(al, node, retries + 1, NodeError(MsgExists, ""))
         ELSE Outcome(SetEmpty(al, node), NoException, retries + 1)
    ELSE IF last_error # NoException
         THEN Outcome(al, RetryFailure(last_error), retries)
         ELSE Outcome(al, NoException, retries)

\* GraphTAD.add_node; ret is the number of attempts made.
add_node(al, node) == add_node_loop(al, node, 0, NoException)

\* Mutant of AppendNew: appends without looking for other in the list.
AppendAlways(al, node, other) == [al EXCEPT ![node] = Append(@, other)]

\* self.adj_list[node].append(other) unless other is in the list already
AppendNew(al, node, other) ==
    IF other \in Range(al[node]) THEN al
    ELSE [al EXCEPT ![node] = Append(@, other)]

\* for node in (from_node, to_node): if node not in self.adj_list: add_node
EnsureNode(o, node) ==
    IF o.exc # NoException \/ node \in DOMAIN o.adj THEN o
    ELSE add_node(o.adj, node)

\* Mutant of IsSelfLoop: the comparison is missing.
IsSelfLoopNever(from_node, to_node) == FALSE

\* if from_node == to_node
IsSelfLoop(from_node, to_node) == from_node = to_node

\* Mutant of AddEdges: the bidirectional flag is ignored, no reverse entry.
AddEdgesForwardOnly(al, from_node, to_node, bidirectional) ==
    AppendNew(al, from_node, to_node)

\* Mutant of AddEdges: the reverse entry is added whatever the flag.
AddEdgesBothWays(al, from_node, to_node, bidirectional) ==
    AppendNew(AppendNew(al, from_node, to_node), to_node, from_node)

\* The two appends that end add_edge
AddEdges(al, from_node, to_node, bidirectional) ==
    LET a1 == AppendNew(al, from_node, to_node) IN
    IF bidirectional THEN AppendNew(a1, to_node, from_node) ELSE a1

\* Mutant of add_edge: each endpoint is created as soon as it is validated,
\* before the other endpoint and the self-loop are looked at.
add_edge_creating_early(al, from_node, to_node, bidirectional) ==
    LET v1 == validate_node(al, from_node, FALSE) IN
    IF v1 # NoException THEN Outcome(al, v1, 0)
    ELSE LET o1 == EnsureNode(Outcome(al, NoException, 0), from_node)
             v2 == validate_node(o1.adj, to_node, FALSE)
         IN
         IF v2 # NoException THEN Outcome(o1.adj, v2, 0)
         ELSE IF IsSelfLoop(from_node, to_node)
              THEN Outcome(o1.adj, EdgeError(MsgSelfLoop), 0)
         ELSE LET o == EnsureNode(o1, to_node) IN
              IF o.exc # NoException THEN Outcome(o.adj, o.exc, 0)
              ELSE Outcome(AddEdges(o.adj, from_node, to_node, bidirectional),
                           NoException, 0)

\* GraphTAD.add_edge.  A NodeError out of add_node leaves what was done so far
\* in place; the `except Exception` branch needs a failure of the dict or list
\* operations, which str keys do not cause.
add_edge(al, from_node, to_node, bidirectional) ==
    LET v1 == validate_node(al, from_node, FALSE)
        v2 == validate_node(al, to_node, FALSE)
    IN
    IF v1 # NoException THEN Outcome(al, v1, 0)
    ELSE IF v2 # NoException THEN Outcome(al, v2, 0)
    ELSE IF IsSelfLoop(from_node, to_node)
         THEN Outcome(al, EdgeError(MsgSelfLoop), 0)
    ELSE LET o == EnsureNode(EnsureNode(Outcome(al, NoException, 0), from_node),
                             to_node)
         IN
         IF o.exc # NoException THEN Outcome(o.adj, o.exc, 0)
         ELSE Outcome(AddEdges(o.adj, from_node, to_node, bidirectional),
                      NoException, 0)

\* Mutant of ListRemove: the last element is moved into the place of x.
ListRemoveBySwap(s, x) ==
    IF x \notin Range(s) THEN s
    ELSE LET i == CHOOSE k \in 1..Len(s) :
                      s[k] = x /\ \A j \in 1..(k - 1) : s[j] # x
         IN IF i = Len(s) THEN SubSeq(s, 1, Len(s) - 1)
            ELSE SubSeq([s EXCEPT ![i] = s[Len(s)]], 1, Len(s) - 1)

\* list.remove(x): drops the first occurrence of x
RECURSIVE ListRemove(_, _)
ListRemove(s, x) ==
    IF s = <<>> THEN <<>>
    ELSE IF Head(s) = x THEN Tail(s)
    ELSE <<Head(s)>> \o ListRemove(Tail(s), x)

\* Mutant of Sweep: the other nodes' lists are left alone.
SweepNothing(al, node) == al

\* for other_node in self.adj_list: if node in ...: ....remove(node)
Sweep(al, node) ==
    [n \in DOMAIN al |->
        IF node \in Range(al[n]) THEN ListRemove(al[n], node) ELSE al[n]]

\* del self.adj_list[node]
Del(al, node) == [n \in DOMAIN al \ {node} |-> al[n]]

\* GraphTAD.remove_node
remove_node(al, node) ==
    LET v == validate_node(al, node, TRUE) IN
    IF v # NoException THEN Outcome(al, v, 0)
    ELSE Outcome(Del(Sweep(al, node), node), NoException, 0)

\* The objects a caller can hold: none, an object made by the call (nothing
\* else refers to it), or the neighbor list that adj_list holds for a node.
NoObject == [kind |-> "none", node |-> <<>>]
FreshObject == [kind |-> "fresh", node |-> <<>>]
StoredList(node) == [kind |-> "stored", node |-> node]

\* set(self.adj_list.keys()): a new set
KeySet(al) == FreshObject

\* The object get_nodes returns
get_nodes_object(al) == KeySet(al)

\* GraphTAD.get_nodes
get_nodes(al) == Outcome(al, NoException, DOMAIN al)

\* Mutant of ListCopy: the list of adj_list itself is returned.
ListItself(al, node) == StoredList(node)

\* self.adj_list[node].copy(): a new list
ListCopy(al, node) == FreshObject

\* The object get_neighbors returns (none when it raises)
get_neighbors_object(al, node) ==
    IF validate_node(al, node, TRUE) # NoException THEN NoObject
    ELSE ListCopy(al, node)

\* GraphTAD.get_neighbors
get_neighbors(al, node) ==
    LET v == validate_node(al, node, TRUE) IN
    IF v # NoException THEN Outcome(al, v, <<>>)
    ELSE Outcome(al, NoException, al[node])

\* GraphTAD.get_degree
get_degree(al, node) ==
    LET v == validate_node(al, node, TRUE) IN
    IF v # NoException THEN Outcome(al, v, 0)
    ELSE Outcome(al, NoException, Len(al[node]))

\* Mutant of search_node: the NodeError of the validation is not caught.
search_node_raising(al, node) ==
    LET v == validate_node(al, node, FALSE) IN
    IF v # NoException THEN Outcome(al, v, FALSE)
    ELSE Outcome(al, NoException, node \in DOMAIN al)

\* GraphTAD.search_node
search_node(al, node) ==
    LET v == validate_node(al, node, FALSE) IN
    IF v # NoException THEN Outcome(al, NoException, FALSE)
    ELSE Outcome(al, NoException, node \in DOMAIN al)

----------------------------------------------------------------------------
(* Exceptions of the matrix functions (src/exceptions/graph_exceptions.py) *)

\* index is the row (from 0) or the line (from 1) that the message names,
\* -1 when it names none; cause is the message of the exception this one was
\* made from (the code puts str(e) in the message), "" if there is none.
NoMatrixException == [cls |-> "none", message |-> "", index |-> -1, cause |-> ""]

\* InvalidMatrixError(message, matrix_size)
InvalidMatrixError(message, index) ==
    [cls |-> "InvalidMatrixError", message |-> message, index |-> index,
     cause |-> ""]

\* FileReadError(message, filename)
FileReadError(message, index) ==
    [cls |-> "FileReadError", message |-> message, index |-> index, cause |-> ""]

MsgMatrixEmpty == "Matrix cannot be empty"
MsgRowLength == "Row has incorrect length"
MsgRowValues == "Row contains invalid values"
MsgFileNotFound == "File not found"
MsgInvalidLine == "Invalid value in line"
MsgReading == "Error reading file"

MatrixOutcome(exc, ret) == [exc |-> exc, ret |-> ret]

----------------------------------------------------------------------------
(* Values of the matrix half *)

\* The cells a row is made of: the two of a matrix and one that is neither.
Cells == {0, 1, 2}

Rows == UNION {[1..n -> Cells] : n \in 0..MaxDim}

\* The lists of lists of int the matrix functions are applied to.
Matrices == UNION {[1..n -> Rows] : n \in 0..MaxDim}

\* self.current_matrix: None, or the list that load_adjacency_matrix returned.
NoMatrix == [loaded |-> FALSE, rows |-> <<>>]

Matrix(rows) == [loaded |-> TRUE, rows |-> rows]

\* A call of a matrix function, or an entry the user makes in the matrix
\* menu: its arguments (those it does not take are left at these values),
\* the exception it ended with or the error it displayed, the value it
\* returned, and the argument matrix as it is after the call.
NoMatrixCall ==
    [op |-> "none", matrix |-> <<>>, directed |-> FALSE, file_path |-> <<>>,
     exc |-> NoMatrixException, ret |-> <<>>, after |-> <<>>]

----------------------------------------------------------------------------
(* validate_matrix, calculate_degrees (src/core/matrix_graph.py) *)

\* Mutant of AllZeroOne: one cell in (0, 1) is enough.
AnyZeroOne(row) == \E k \in 1..Len(row) : row[k] \in {0, 1}

\* all(x in (0, 1) for x in row)
AllZeroOne(row) == \A k \in 1..Len(row) : row[k] \in {0, 1}

\* The for loop of validate_matrix from row i (counted from 0) on.
RECURSIVE validate_rows(_, _)
validate_rows(matrix, i) ==
    IF i >= Len(matrix) THEN NoMatrixException
    ELSE IF Len(matrix[i + 1]) # Len(matrix)
         THEN InvalidMatrixError(MsgRowLength, i)
    ELSE IF ~AllZeroOne(matrix[i + 1])
         THEN InvalidMatrixError(MsgRowValues, i)
    ELSE validate_rows(matrix, i + 1)

\* validate_matrix: the exception it raises, NoMatrixException if none.  Its
\* `except Exception` branch needs len() or the iteration to raise, which they
\* do not for a list of lists of int.
validate_matrix(matrix) ==
    IF Len(matrix) = 0 THEN InvalidMatrixError(MsgMatrixEmpty, -1)
    ELSE validate_rows(matrix, 0)

\* sum(row)
RECURSIVE Sum(_)
Sum(row) == IF row = <<>> THEN 0 ELSE Head(row) + Sum(Tail(row))

\* out_degree = sum(matrix[i])
OutDegree(matrix, i) == Sum(matrix[i + 1])

\* Mutant of InDegree: the row is summed, not the column.
InDegreeOfRow(matrix, i) == Sum(matrix[i + 1])

\* in_degree = sum(matrix[j][i] for j in range(num_nodes))
InDegree(matrix, i) == Sum([j \in 1..Len(matrix) |-> matrix[j][i + 1]])

\* calculate_degrees; ret is the dict, a function on 0..num_nodes-1.  The
\* sums of a validated matrix do not raise, so the inner `except` is not
\* entered.
calculate_degrees(matrix, directed) ==
    LET v == validate_matrix(matrix) IN
    IF v # NoMatrixException THEN MatrixOutcome(v, <<>>)
    ELSE MatrixOutcome(NoMatrixException,
            [i \in 0..(Len(matrix) - 1) |->
                IF ~directed THEN Sum(matrix[i + 1])
                ELSE [in_degree |-> InDegree(matrix, i),
                      out_degree |-> OutDegree(matrix, i)]])

----------------------------------------------------------------------------
(* load_adjacency_matrix (src/core/matrix_graph.py) *)

\* The files there are: path :> lines.  Every other path is no file.
FileSystem ==
    (<<"o", "k">> :> \* "0 1\n1 0\n"
        <<<<"0", " ", "1", "\n">>,
          <<"1", " ", "0", "\n">>>>)
    @@ (<<"d", "g">> :> \* "0 1\n0 0": directed
        <<<<"0", " ", "1", "\n">>,
          <<"0", " ", "0">>>>)
    @@ (<<"s", "p">> :> \* padded, with an empty line
        <<<<" ", "0", " ", "1", " ", "\n">>,
          <<"\n">>,
          <<"1", " ", " ", "0", "\n">>>>)
    @@ (<<"o", "1">> :> \* "1": one node
        <<<<"1", "\n">>>>)
    @@ (<<"r", "g">> :> \* "0 1\n1": rows of unequal length
        <<<<"0", " ", "1", "\n">>,
          <<"1">>>>)
    @@ (<<"v", "2">> :> \* "0 2\n1 0": a cell outside {0,1}
        <<<<"0", " ", "2", "\n">>,
          <<"1", " ", "0">>>>)
    @@ (<<"e", "m">> :> \* an empty file
        <<>>)
    @@ (<<"b", "l">> :> \* blank lines only
        <<<<" ", "\n">>,
          <<"\n">>>>)
    @@ (<<"w", "x">> :> \* "0 x\n1 0": a token that is no integer
        <<<<"0", " ", "x", "\n">>,
          <<"1", " ", "0", "\n">>>>)

\* The paths load_adjacency_matrix is called with: the files and one path
\* that is no file.
Paths == DOMAIN FileSystem \cup {<<"n", "o">>}

\* str.split(): the maximal runs of characters that are not whitespace.
\* `word` is the run being read, `words` the runs read so far.
RECURSIVE SplitFrom(_, _, _)
SplitFrom(s, word, words) ==
    IF s = <<>> THEN (IF word = <<>> THEN words ELSE Append(words, word))
    ELSE IF IsSpace(Head(s))
         THEN SplitFrom(Tail(s), <<>>,
                        IF word = <<>> THEN words ELSE Append(words, word))
    ELSE SplitFrom(Tail(s), Append(word, Head(s)), words)

Split(s) == SplitFrom(s, <<>>, <<>>)

Digits == {"0", "1", "2", "3", "4", "5", "6", "7", "8", "9"}

DigitValue(c) ==
    CASE c = "0" -> 0 [] c = "1" -> 1 [] c = "2" -> 2 [] c = "3" -> 3
      [] c = "4" -> 4 [] c = "5" -> 5 [] c = "6" -> 6 [] c = "7" -> 7
      [] c = "8" -> 8 [] c = "9" -> 9

\* int(x) does not raise ValueError.  (int also takes a sign and underscores;
\* the files here hold digits, blanks and letters.)
IsInt(x) == x # <<>> /\ \A k \in 1..Len(x) : x[k] \in Digits

\* int(x) for a run of digits
RECURSIVE IntOf(_)
IntOf(x) ==
    IF Len(x) = 1 THEN DigitValue(x[1])
    ELSE 10 * IntOf(SubSeq(x, 1, Len(x) - 1)) + DigitValue(x[Len(x)])

\* The for loop over the lines, from line line_num (counted from 1) on, with
\* `matrix` the rows appended so far: the FileReadError raised for a token
\* that is no integer, or the rows.
RECURSIVE read_lines(_, _, _)
read_lines(lines, line_num, matrix) ==
    IF line_num > Len(lines) THEN MatrixOutcome(NoMatrixException, matrix)
    ELSE LET stripped_line == Strip(lines[line_num])
             tokens == Split(stripped_line)
         IN
         IF stripped_line = <<>> THEN read_lines(lines, line_num + 1, matrix)
         ELSE IF \E k \in 1..Len(tokens) : ~IsInt(tokens[k])
              THEN MatrixOutcome(FileReadError(MsgInvalidLine, line_num), matrix)
         ELSE read_lines(lines, line_num + 1,
                         Append(matrix,
                                [k \in 1..Len(tokens) |-> IntOf(tokens[k])]))

\* except Exception as e: raise FileReadError(f"Error reading file: {str(e)}")
\* It catches every exception raised in the try block, so the FileReadError
\* of the for loop and the InvalidMatrixError of validate_matrix too.
ErrorReadingFile(e) ==
    [cls |-> "FileReadError", message |-> MsgReading, index |-> e.index,
     cause |-> e.message]

\* load_adjacency_matrix, with fs the files there are.  (open() of a directory
\* or of a file that cannot be read raises an OSError, which ends as
\* ErrorReadingFile as well; fs holds no such path.)
load_adjacency_matrix(fs, file_path) ==
    IF file_path \notin DOMAIN fs
    THEN MatrixOutcome(FileReadError(MsgFileNotFound, -1), <<>>)
    ELSE LET r == read_lines(fs[file_path], 1, <<>>) IN
         IF r.exc # NoMatrixException
         THEN MatrixOutcome(ErrorReadingFile(r.exc), <<>>)
         ELSE LET v == validate_matrix(r.ret) IN
              IF v # NoMatrixException
              THEN MatrixOutcome(ErrorReadingFile(v), <<>>)
              ELSE MatrixOutcome(NoMatrixException, r.ret)

----------------------------------------------------------------------------
(* The session: GraphTAD() followed by calls of its methods *)

NoCall == [op |-> "none", args |-> <<>>, exc |-> NoException, ret |-> 0]

\* A call whose returned value is the object obj.
CallHolding(op, args, o, obj) ==
    /\ last.op = "none"
    /\ ncalls < MaxCalls
    /\ adj_list' = o.adj
    /\ before' = adj_list
    /\ last' = [op |-> op, args |-> args, exc |-> o.exc, ret |-> o.ret]
    /\ ncalls' = ncalls + 1
    /\ held' = obj
    /\ UNCHANGED mvars

Call(op, args, o) == CallHolding(op, args, o, NoObject)

\* GraphTAD.__init__
Init ==
    /\ adj_list = <<>>
    /\ before = <<>>
    /\ last = NoCall
    /\ ncalls = 0
    /\ held = NoObject
    /\ mcall = NoMatrixCall
    /\ current_matrix = NoMatrix
    /\ matrix_before = NoMatrix
    /\ mpc = "menu"
    /\ load_retries = 0
    /\ failed = 0

AddNode == \E node \in NodeInputs : Call("add_node", <<node>>, add_node(adj_list, node))

AddEdge ==
    \E from_node \in EdgeInputs, to_node \in EdgeInputs, bidirectional \in BOOLEAN :
        Call("add_edge", <<from_node, to_node, bidirectional>>,
             add_edge(adj_list, from_node, to_node, bidirectional))

RemoveNode ==
    \E node \in NodeInputs : Call("remove_node", <<node>>, remove_node(adj_list, node))

GetNeighbors ==
    \E node \in NodeInputs :
        CallHolding("get_neighbors", <<node>>, get_neighbors(adj_list, node),
                    get_neighbors_object(adj_list, node))

GetDegree ==
    \E node \in NodeInputs : Call("get_degree", <<node>>, get_degree(adj_list, node))

SearchNode ==
    \E node \in NodeInputs : Call("search_node", <<node>>, search_node(adj_list, node))

GetNodes ==
    CallHolding("get_nodes", <<>>, get_nodes(adj_list), get_nodes_object(adj_list))

\* What a caller can do to a list it holds: append(x), remove(x), clear().
ListMutations ==
    [kind : {"append", "remove"}, x : ValidIds] \cup [kind : {"clear"}, x : {<<>>}]

ApplyListMutation(s, m) ==
    CASE m.kind = "append" -> Append(s, m.x)
      [] m.kind = "remove" -> ListRemove(s, m.x)
      [] m.kind = "clear" -> <<>>

\* What a caller can do to a set it holds: add(x), discard(x), clear().
SetMutations ==
    [kind : {"add", "discard"}, x : ValidIds] \cup [kind : {"clear"}, x : {<<>>}]

ApplySetMutation(s, m) ==
    CASE m.kind = "add" -> s \cup {m.x}
      [] m.kind = "discard" -> s \ {m.x}
      [] m.kind = "clear" -> {}

\* The object obj now holds `items`: adj_list after that.
StoreAfter(al, obj, items) ==
    IF obj.kind = "stored" THEN [al EXCEPT ![obj.node] = items] ELSE al

\* The caller mutates the list that get_neighbors returned to it.
MutateNeighbors ==
    /\ last.op = "get_neighbors"
    /\ last.exc = NoException
    /\ \E m \in ListMutations :
           /\ m.kind = "remove" => m.x \in Range(last.ret)
           /\ LET items == ApplyListMutation(last.ret, m) IN
              /\ adj_list' = StoreAfter(adj_list, held, items)
              /\ last' = [op |-> "mutate_neighbors", args |-> <<last.args[1], m>>,
                          exc |-> NoException, ret |-> items]
    /\ before' = adj_list
    /\ UNCHANGED <<ncalls, held>>
    /\ UNCHANGED mvars

\* The caller mutates the set that get_nodes returned to it.
MutateNodes ==
    /\ last.op = "get_nodes"
    /\ \E m \in SetMutations :
           /\ m.kind = "discard" => m.x \in last.ret
           /\ last' = [op |-> "mutate_nodes", args |-> <<m>>,
                       exc |-> NoException, ret |-> ApplySetMutation(last.ret, m)]
    /\ adj_list' = adj_list
    /\ before' = adj_list
    /\ UNCHANGED <<ncalls, held>>
    /\ UNCHANGED mvars

IsEmpty == Call("is_empty", <<>>, is_empty(adj_list))

\* The caller has taken the outcome of the call and is about to call again.
Return ==
    /\ last.op # "none"
    /\ last' = NoCall
    /\ before' = <<>>
    /\ held' = NoObject
    /\ UNCHANGED <<adj_list, ncalls>>
    /\ UNCHANGED mvars

Next ==
    \/ AddNode
    \/ AddEdge
    \/ RemoveNode
    \/ GetNeighbors
    \/ GetDegree
    \/ SearchNode
    \/ GetNodes
    \/ IsEmpty
    \/ MutateNeighbors
    \/ MutateNodes
    \/ Return

Spec == Init /\ [][Next]_vars

\* A session in which every add_edge is called with bidirectional=True.
AddEdgeBidirectional ==
    \E from_node \in EdgeInputs, to_node \in EdgeInputs :
        Call("add_edge", <<from_node, to_node, TRUE>>,
             add_edge(adj_list, from_node, to_node, TRUE))

NextBidirectional ==
    \/ AddNode
    \/ AddEdgeBidirectional
    \/ RemoveNode
    \/ GetNeighbors
    \/ GetDegree
    \/ SearchNode
    \/ GetNodes
    \/ IsEmpty
    \/ MutateNeighbors
    \/ MutateNodes
    \/ Return

BidirectionalSpec == Init /\ [][NextBidirectional]_vars

----------------------------------------------------------------------------
(* The matrix functions, each applied to every argument *)

\* The caller is not in a call.
MatrixIdle == mcall.op = "none"

MatrixCall(op, matrix, directed, file_path, o) ==
    /\ mcall' = [op |-> op, matrix |-> matrix, directed |-> directed,
                 file_path |-> file_path, exc |-> o.exc, ret |-> o.ret,
                 after |-> matrix]
    /\ UNCHANGED <<current_matrix, matrix_before, mpc, load_retries, failed>>
    /\ UNCHANGED gvars

ValidateMatrix ==
    /\ MatrixIdle
    /\ \E matrix \in Matrices :
           MatrixCall("validate_matrix", matrix, FALSE, <<>>,
                      MatrixOutcome(validate_matrix(matrix), <<>>))

CalculateDegrees ==
    /\ MatrixIdle
    /\ \E matrix \in Matrices, directed \in BOOLEAN :
           MatrixCall("calculate_degrees", matrix, directed, <<>>,
                      calculate_degrees(matrix, directed))

LoadAdjacencyMatrix ==
    /\ MatrixIdle
    /\ \E file_path \in Paths :
           MatrixCall("load_adjacency_matrix", <<>>, FALSE, file_path,
                      load_adjacency_matrix(FileSystem, file_path))

\* The caller has taken the outcome of the call.
MatrixReturn ==
    /\ mcall.op # "none"
    /\ mcall' = NoMatrixCall
    /\ UNCHANGED <<current_matrix, matrix_before, mpc, load_retries, failed>>
    /\ UNCHANGED gvars

MatrixNext ==
    \/ ValidateMatrix
    \/ CalculateDegrees
    \/ LoadAdjacencyMatrix
    \/ MatrixReturn

MatrixSpec == Init /\ [][MatrixNext]_vars

----------------------------------------------------------------------------
(* MatrixMenu (src/menus/matrix_menu.py): the user at the matrix menu *)

\* while retries < 3
MaxLoadRetries == 3

\* if retries < 2:  # Don't ask on last retry
LastLoadRetry == 2

\* What the user types at the file path prompt: the paths, a blank entry and
\* a path with blanks around it.
PathEntries == Paths \cup {<<" ">>, <<" ", "o", "k", " ">>}

\* display_error(message), where no exception was raised
Displayed(message) ==
    [cls |-> "display_error", message |-> message, index |-> -1, cause |-> ""]

MsgInputEmpty == "Input cannot be empty"
MsgNoMatrix == "No matrix loaded"

\* An entry at the file path prompt and how it ended.
PathEntry(file_path, exc, ret) ==
    [op |-> "_load_matrix", matrix |-> <<>>, directed |-> FALSE,
     file_path |-> file_path, exc |-> exc, ret |-> ret, after |-> <<>>]

\* Mutant of assign_loaded: the attribute is assigned however the call ends.
assign_always(cur, o) == Matrix(o.ret)

\* self.current_matrix = load_adjacency_matrix(file_path): the attribute is
\* assigned when the call returns and not when it raises.
assign_loaded(cur, o) == IF o.exc = NoMatrixException THEN Matrix(o.ret) ELSE cur

\* Option 1: _load_matrix starts, retries = 0, and asks for the path.
LoadMatrix ==
    /\ mpc = "menu"
    /\ mpc' = "path"
    /\ load_retries' = 0
    /\ failed' = 0
    /\ mcall' = NoMatrixCall
    /\ matrix_before' = current_matrix
    /\ UNCHANGED current_matrix
    /\ UNCHANGED gvars

\* The user answers the file path prompt.  get_input strips the entry and
\* asks again for an empty one, so `not file_path.strip()` is never true in
\* _load_matrix.  failed counts the entries get_input returned that did not
\* load a matrix.
EnterPath ==
    /\ mpc = "path"
    /\ failed < MaxFailed
    /\ matrix_before' = current_matrix
    /\ UNCHANGED gvars
    /\ \E entry \in PathEntries :
        LET file_path == Strip(entry)
            o == load_adjacency_matrix(FileSystem, file_path)
        IN
        IF file_path = <<>>
        THEN /\ mcall' = PathEntry(file_path, Displayed(MsgInputEmpty), <<>>)
             /\ UNCHANGED <<current_matrix, mpc, load_retries, failed>>
        ELSE IF file_path \notin DOMAIN FileSystem
        THEN \* display_error("File not found: ..."); continue
             /\ mcall' = PathEntry(file_path, Displayed(MsgFileNotFound), <<>>)
             /\ failed' = failed + 1
             /\ UNCHANGED <<current_matrix, mpc, load_retries>>
        ELSE /\ mcall' = PathEntry(file_path, o.exc, o.ret)
             /\ current_matrix' = assign_loaded(current_matrix, o)
             /\ IF o.exc = NoMatrixException
                THEN \* return
                     /\ mpc' = "menu"
                     /\ UNCHANGED <<load_retries, failed>>
                ELSE /\ failed' = failed + 1
                     /\ IF load_retries < LastLoadRetry
                        THEN \* "Try again? (y/n)"
                             /\ mpc' = "again"
                             /\ UNCHANGED load_retries
                        ELSE \* retries += 1, and the while loop ends
                             /\ load_retries' = load_retries + 1
                             /\ mpc' = IF load_retries + 1 < MaxLoadRetries
                                       THEN "path" ELSE "menu"

\* The user answers "Try again? (y/n)": "y" goes on to `retries += 1` and to
\* the next turn of the loop, "n" breaks out of it.
TryAgain ==
    /\ mpc = "again"
    /\ \E answer \in {"y", "n"} :
        IF answer = "y"
        THEN /\ load_retries' = load_retries + 1
             /\ mpc' = IF load_retries + 1 < MaxLoadRetries
                       THEN "path" ELSE "menu"
        ELSE /\ mpc' = "menu"
             /\ UNCHANGED load_retries
    /\ UNCHANGED <<mcall, current_matrix, matrix_before, failed>>
    /\ UNCHANGED gvars

\* Option 3: _calculate_degrees of the current matrix.
MenuCalculateDegrees ==
    /\ mpc = "menu"
    /\ \E directed \in BOOLEAN :
        LET o == calculate_degrees(current_matrix.rows, directed) IN
        mcall' = IF ~current_matrix.loaded
                 THEN [NoMatrixCall EXCEPT !.op = "_calculate_degrees",
                                           !.exc = Displayed(MsgNoMatrix)]
                 ELSE [op |-> "_calculate_degrees",
                       matrix |-> current_matrix.rows, directed |-> directed,
                       file_path |-> <<>>, exc |-> o.exc, ret |-> o.ret,
                       after |-> current_matrix.rows]
    /\ UNCHANGED <<current_matrix, matrix_before, mpc, load_retries, failed>>
    /\ UNCHANGED gvars

MenuNext ==
    \/ LoadMatrix
    \/ EnterPath
    \/ TryAgain
    \/ MenuCalculateDegrees

MenuSpec == Init /\ [][MenuNext]_vars

----------------------------------------------------------------------------
(* Properties *)

\* The call in `last`: its method, its arguments, how it ended.
Called(op) == last.op = op
Returned(op) == last.op = op /\ last.exc = NoException
Arg(i) == last.args[i]

\* s without every occurrence of x, the rest in order
Without(s, x) == LET keep(y) == y # x IN SelectSeq(s, keep)

NoDuplicates(s) == \A i, j \in 1..Len(s) : s[i] = s[j] => i = j

\* C1: every identity in some node's neighbor list is a key of adj_list.
C1_NoDanglingNeighbors ==
    \A n \in DOMAIN adj_list : Range(adj_list[n]) \subseteq DOMAIN adj_list

\* remove_node has just removed a node that two other nodes listed, and
\* neighbor entries remain in the store.
C1_Witness ==
    /\ Returned("remove_node")
    /\ Cardinality({n \in DOMAIN before : Arg(1) \in Range(before[n])}) >= 2
    /\ \E n \in DOMAIN adj_list : adj_list[n] # <<>>

\* C2: no node is in its own neighbor list.
C2_NoSelfLoops == \A n \in DOMAIN adj_list : n \notin Range(adj_list[n])

\* add_edge(a, a, True) was called on a node a that has neighbors.
C2_Witness ==
    /\ Called("add_edge")
    /\ Arg(1) = Arg(2)
    /\ Arg(3)
    /\ Arg(1) \in DOMAIN adj_list
    /\ adj_list[Arg(1)] # <<>>

\* C3: add_edge(a, b, bidirectional) called when the entries it asks for are
\* there already (as after a first such call) returns without error and leaves
\* adj_list as it was; and no neighbor list ever holds an identity twice.
C3_DuplicateEdgeIsNoOp ==
    /\ \A n \in DOMAIN adj_list : NoDuplicates(adj_list[n])
    /\ ( /\ Called("add_edge")
         /\ Arg(1) \in DOMAIN before
         /\ Arg(2) \in DOMAIN before
         /\ Arg(2) \in Range(before[Arg(1)])
         /\ (Arg(3) => Arg(1) \in Range(before[Arg(2)])) )
       => (last.exc = NoException /\ adj_list = before)

\* A bidirectional add_edge(a, b) was repeated: both entries were there.
C3_Witness ==
    /\ Returned("add_edge")
    /\ Arg(3)
    /\ Arg(1) \in DOMAIN before
    /\ Arg(2) \in DOMAIN before
    /\ Arg(2) \in Range(before[Arg(1)])
    /\ Arg(1) \in Range(before[Arg(2)])

\* C4: add_edge(a, b, True) with a and b distinct valid identities returns
\* without error, whatever the store held, and then b is among a's neighbors
\* and a among b's.
C4_BidirectionalAddsBoth ==
    ( /\ Called("add_edge")
      /\ Arg(3)
      /\ Arg(1) \in ValidIds
      /\ Arg(2) \in ValidIds
      /\ Arg(1) # Arg(2) )
    => /\ last.exc = NoException
       /\ {Arg(1), Arg(2)} \subseteq DOMAIN adj_list
       /\ Arg(2) \in Range(get_neighbors(adj_list, Arg(1)).ret)
       /\ Arg(1) \in Range(get_neighbors(adj_list, Arg(2)).ret)

\* add_edge(a, b, True) returned where neither a nor b was a node.
C4_Witness ==
    /\ Returned("add_edge")
    /\ Arg(3)
    /\ Arg(1) \notin DOMAIN before
    /\ Arg(2) \notin DOMAIN before
    /\ DOMAIN before # {}

\* C5: add_edge(a, b, False) puts b among a's neighbors, leaves every other
\* node's list as it was (b's list is empty if the call created b), so a is
\* among b's neighbors only if it was before the call.
C5_DirectedAddsForwardOnly ==
    ( /\ Called("add_edge")
      /\ ~Arg(3)
      /\ Arg(1) \in ValidIds
      /\ Arg(2) \in ValidIds
      /\ Arg(1) # Arg(2) )
    => /\ last.exc = NoException
       /\ DOMAIN adj_list = DOMAIN before \cup {Arg(1), Arg(2)}
       /\ Arg(2) \in Range(adj_list[Arg(1)])
       /\ ( Arg(1) \in Range(adj_list[Arg(2)])
            => (Arg(2) \in DOMAIN before /\ Arg(1) \in Range(before[Arg(2)])) )
       /\ \A n \in DOMAIN adj_list \ {Arg(1)} :
              adj_list[n] = IF n \in DOMAIN before THEN before[n] ELSE <<>>

\* add_edge(a, b, False) returned where b had neighbors and a was not one.
C5_Witness ==
    /\ Returned("add_edge")
    /\ ~Arg(3)
    /\ Arg(2) \in DOMAIN before
    /\ before[Arg(2)] # <<>>
    /\ Arg(1) \notin Range(before[Arg(2)])
    /\ Arg(1) \in DOMAIN before
    /\ Arg(2) \notin Range(before[Arg(1)])

C7_AddExistingNodeRaises ==
    (Called("add_node") /\ Arg(1) \in DOMAIN before)
    => /\ last.exc.cls = "NodeError"
       /\ MsgExists \in {last.exc.message, last.exc.last_error}
       /\ last.ret <= MAX_RETRIES
       /\ adj_list = before

\* add_node(a) was called on a node a that has neighbors.
C7_Witness ==
    /\ Called("add_node")
    /\ Arg(1) \in DOMAIN before
    /\ before[Arg(1)] # <<>>

\* C8: remove_node(a) with a a node returns; then a is no key, no neighbor
\* list holds a, search_node(a) is False, and every other node's list is its
\* list from before the call without a, in the same order.
C8_RemoveNodeRemovesEverywhere ==
    (Called("remove_node") /\ Arg(1) \in DOMAIN before)
    => /\ last.exc = NoException
       /\ DOMAIN adj_list = DOMAIN before \ {Arg(1)}
       /\ \A n \in DOMAIN adj_list :
              /\ Arg(1) \notin Range(adj_list[n])
              /\ adj_list[n] = Without(before[n], Arg(1))
       /\ search_node(adj_list, Arg(1)).ret = FALSE

\* remove_node(a) returned where some node listed a first among three
\* neighbors.
C8_Witness ==
    /\ Returned("remove_node")
    /\ \E n \in DOMAIN before :
           /\ Len(before[n]) = 3
           /\ before[n][1] = Arg(1)

\* C9: add_node(a) with a a valid identity that is no node returns; then
\* search_node(a) is True, get_degree(a) is 0 and every other entry is as it
\* was.
C9_AddNodeCreatesIsolatedNode ==
    (Called("add_node") /\ Arg(1) \in ValidIds /\ Arg(1) \notin DOMAIN before)
    => /\ last.exc = NoException
       /\ search_node(adj_list, Arg(1)).ret = TRUE
       /\ get_degree(adj_list, Arg(1)).exc = NoException
       /\ get_degree(adj_list, Arg(1)).ret = 0
       /\ DOMAIN adj_list = DOMAIN before \cup {Arg(1)}
       /\ \A n \in DOMAIN before : adj_list[n] = before[n]

\* add_node(a) returned in a store that held edges.
C9_Witness ==
    /\ Returned("add_node")
    /\ \E n \in DOMAIN before : before[n] # <<>>

\* C10: search_node never raises; it returns True exactly for the keys of
\* adj_list, so False for None, "", " " and for absent identities.  On an
\* invalid or absent identity get_neighbors, get_degree and remove_node raise
\* NodeError.
C10_SearchNeverRaises ==
    /\ Called("search_node")
       => /\ last.exc = NoException
          /\ last.ret = (Arg(1) \in DOMAIN before)
          /\ (Arg(1) \in InvalidIds => last.ret = FALSE)
    /\ ( /\ last.op \in {"get_neighbors", "get_degree", "remove_node"}
         /\ (Arg(1) \in InvalidIds \/ Arg(1) \notin DOMAIN before) )
       => last.exc.cls = "NodeError"

\* search_node(" ") was called on a store that holds nodes.
C10_Witness ==
    /\ Called("search_node")
    /\ Arg(1) = <<" ">>
    /\ DOMAIN before # {}

\* C11: whatever a caller does to the list get_neighbors returned (append,
\* remove, clear), adj_list stays as it was, so get_neighbors and get_degree
\* answer as before; the same for the set get_nodes returned.
C11_ReturnedValuesAreCopies ==
    /\ Called("mutate_neighbors")
       => /\ adj_list = before
          /\ get_neighbors(adj_list, Arg(1)).ret = before[Arg(1)]
          /\ get_degree(adj_list, Arg(1)).ret = Len(before[Arg(1)])
    /\ Called("mutate_nodes")
       => /\ adj_list = before
          /\ get_nodes(adj_list).ret = DOMAIN before

\* The caller has cleared the list returned for a node that has neighbors.
C11_Witness ==
    /\ Called("mutate_neighbors")
    /\ Arg(2).kind = "clear"
    /\ before[Arg(1)] # <<>>
    /\ last.ret = <<>>

\* C17: a call of add_node, add_edge, remove_node, get_neighbors or
\* get_degree that raises leaves adj_list as it was; add_edge that raises
\* has not created its first endpoint.
C17_FailedCallChangesNothing ==
    ( /\ last.op \in {"add_node", "add_edge", "remove_node",
                      "get_neighbors", "get_degree"}
      /\ last.exc # NoException )
    => /\ adj_list = before
       /\ DOMAIN adj_list = DOMAIN before
       /\ Arg(1) \notin DOMAIN before => Arg(1) \notin DOMAIN adj_list

\* add_edge(a, " ", ...) raised where a was no node of a store that holds
\* nodes.
C17_Witness ==
    /\ Called("add_edge")
    /\ last.exc.cls = "NodeError"
    /\ Arg(1) \in ValidIds
    /\ Arg(1) \notin DOMAIN before
    /\ Arg(2) = <<" ">>
    /\ DOMAIN before # {}

\* b is in a's neighbor list
Lists(a, b) == a \in DOMAIN adj_list /\ b \in Range(adj_list[a])

\* C18: when every add_edge is bidirectional, b is in a's list exactly when
\* a is in b's, and get_degree(a) is the number of nodes that list a.
C18_BidirectionalIsSymmetric ==
    /\ \A a, b \in ValidIds : Lists(a, b) <=> Lists(b, a)
    /\ \A a \in DOMAIN adj_list :
           get_degree(adj_list, a).ret
               = Cardinality({n \in DOMAIN adj_list : Lists(n, a)})

\* remove_node has removed a node with two neighbors, and edges remain.
C18_Witness ==
    /\ Returned("remove_node")
    /\ Len(before[Arg(1)]) >= 2
    /\ \E n \in DOMAIN adj_list : adj_list[n] # <<>>

----------------------------------------------------------------------------
(* Properties of the matrix functions and of the matrix menu *)

\* The number of cells of `row` that are 1.
Ones(row) == Cardinality({k \in 1..Len(row) : row[k] = 1})

\* A non-empty square matrix of 0 and 1.
IsAdjacencyMatrix(m) ==
    /\ Len(m) > 0
    /\ \A i \in 1..Len(m) : Len(m[i]) = Len(m)
    /\ \A i \in 1..Len(m) : \A k \in 1..Len(m[i]) : m[i][k] \in {0, 1}

\* C12: validate_matrix raises InvalidMatrixError exactly when the matrix is
\* empty, or a row is not as long as the matrix has rows, or a cell is
\* neither 0 nor 1; it raises nothing else, and for a non-empty square 0/1
\* matrix it returns and the matrix is as it was.
C12_ValidateMatrixRaisesIffInvalid ==
    mcall.op = "validate_matrix" =>
        LET m == mcall.matrix
            invalid == \/ Len(m) = 0
                       \/ \E i \in 1..Len(m) : Len(m[i]) # Len(m)
                       \/ \E i \in 1..Len(m) : \E k \in 1..Len(m[i]) :
                              m[i][k] \notin {0, 1}
        IN
        /\ mcall.exc.cls = "InvalidMatrixError" <=> invalid
        /\ mcall.exc.cls \in {"none", "InvalidMatrixError"}
        /\ ~invalid => mcall.exc.cls = "none" /\ mcall.after = m

\* A square matrix whose only cell outside {0,1} is in its last row is
\* rejected for that row.
C12_Witness ==
    /\ mcall.op = "validate_matrix"
    /\ mcall.matrix = <<<<0, 1>>, <<2, 0>>>>
    /\ mcall.exc.cls = "InvalidMatrixError"
    /\ mcall.exc.message = MsgRowValues
    /\ mcall.exc.index = 1

\* C13: for a non-empty square 0/1 matrix of N rows calculate_degrees returns
\* a dict whose keys are 0..N-1; undirected, the value of i is the sum of row
\* i; directed, it is in_degree = the sum of column i and out_degree = the
\* sum of row i.  [[0,1],[1,0]] undirected gives {0: 1, 1: 1}, [[0,1],[0,0]]
\* directed gives {0: {in: 0, out: 1}, 1: {in: 1, out: 0}}.  The matrix is as
\* it was.
C13_DegreesAreRowAndColumnSums ==
    (mcall.op = "calculate_degrees" /\ IsAdjacencyMatrix(mcall.matrix)) =>
        LET m == mcall.matrix
            N == Len(m)
            column(i) == [j \in 1..N |-> m[j][i + 1]]
        IN
        /\ mcall.exc.cls = "none"
        /\ DOMAIN mcall.ret = 0..(N - 1)
        /\ \A i \in 0..(N - 1) :
              IF mcall.directed
              THEN mcall.ret[i] = [in_degree |-> Ones(column(i)),
                                   out_degree |-> Ones(m[i + 1])]
              ELSE mcall.ret[i] = Ones(m[i + 1])
        /\ (m = <<<<0, 1>>, <<1, 0>>>> /\ ~mcall.directed)
              => mcall.ret = (0 :> 1 @@ 1 :> 1)
        /\ (m = <<<<0, 1>>, <<0, 0>>>> /\ mcall.directed)
              => mcall.ret = (0 :> [in_degree |-> 0, out_degree |-> 1]
                              @@ 1 :> [in_degree |-> 1, out_degree |-> 0])
        /\ mcall.after = m

\* The directed degrees of [[0,1],[0,0]] have been calculated.
C13_Witness ==
    /\ mcall.op = "calculate_degrees"
    /\ mcall.directed
    /\ mcall.matrix = <<<<0, 1>>, <<0, 0>>>>
    /\ mcall.exc.cls = "none"
    /\ mcall.ret[1].in_degree = 1
    /\ mcall.ret[1].out_degree = 0

\* C14: when load_adjacency_matrix has read a file whose rows validate_matrix
\* rejects, the exception that reaches the caller is the InvalidMatrixError
\* that validate_matrix raised, unchanged.
C14_ValidationFailurePropagatesUnchanged ==
    (mcall.op = "load_adjacency_matrix" /\ mcall.file_path \in DOMAIN FileSystem) =>
        LET r == read_lines(FileSystem[mcall.file_path], 1, <<>>) IN
        (r.exc.cls = "none" /\ ~IsAdjacencyMatrix(r.ret)) =>
            /\ mcall.exc.cls = "InvalidMatrixError"
            /\ mcall.exc = validate_matrix(r.ret)

\* The file "0 1\n1" has been loaded: what reaches the caller is a
\* FileReadError made from the InvalidMatrixError of validate_matrix.
C14_Witness ==
    /\ mcall.op = "load_adjacency_matrix"
    /\ mcall.file_path = <<"r", "g">>
    /\ mcall.exc.cls = "FileReadError"
    /\ mcall.exc.message = MsgReading
    /\ mcall.exc.cause = MsgRowLength

\* C15: the current matrix changes only in a step in which a file is loaded
\* without an exception, and then it is the matrix read from that file, which
\* validate_matrix accepts; so an entry that fails (a path that is no file,
\* displayed as "File not found", a line that does not parse, rows that do
\* not validate) leaves the current matrix as it was.
C15_OnlySuccessfulLoadChangesMatrix ==
    [][current_matrix' # current_matrix =>
          /\ mpc = "path"
          /\ mcall'.op = "_load_matrix"
          /\ mcall'.exc.cls = "none"
          /\ mcall'.file_path \in DOMAIN FileSystem
          /\ current_matrix' =
                 Matrix(read_lines(FileSystem[mcall'.file_path], 1, <<>>).ret)
          /\ IsAdjacencyMatrix(current_matrix'.rows)]_vars

\* With a matrix loaded, the file "0 2\n1 0" has been entered and has failed
\* to load, and the matrix is the one there was.
C15_Witness ==
    /\ mcall.op = "_load_matrix"
    /\ mcall.file_path = <<"v", "2">>
    /\ mcall.exc.cls = "FileReadError"
    /\ matrix_before.loaded
    /\ current_matrix = matrix_before

\* C16: _load_matrix gives up after at most 3 entries that fail to load: there
\* are never more than 3 of them in one run, and after the third the user is
\* back at the menu.
C16_GivesUpAfterThreeFailedEntries ==
    /\ failed <= 3
    /\ failed = 3 => mpc = "menu"

\* A fourth path that is no file has been entered in one run of _load_matrix,
\* which asks for the next.
C16_Witness ==
    /\ failed = 4
    /\ load_retries = 0
    /\ mpc = "path"
    /\ mcall.exc = Displayed(MsgFileNotFound)

====
